---- MODULE Spec2Model ----
(***************************************************************************)
(* Ingestion pipeline, vector store and schema manager of vectordb_learn.  *)
(*                                                                         *)
(* The PostgreSQL/pgvector engine is modelled by what the statements the   *)
(* code sends do to the database: the table, its rows, the BIGSERIAL       *)
(* sequence and the named indexes.  The embedding service and the CSV      *)
(* reader are the environment: every call returns or raises.               *)
(***************************************************************************)
EXTENDS Integers, Sequences, FiniteSets, TLC

\* ------------------------------------------------------------------ bounds
MaxN == 4          \* records in one CSV source
MaxBatch == 3      \* batch_size ranges over 1..MaxBatch
MaxRows == 5       \* rows the table holds at most
MaxSeq == 1        \* a rejected insert burns an id only while the sequence is below this
MaxSeed == 1       \* a new ingest run starts on a table of at most this many rows
MaxLoad == 2       \* records in a file ingested from the application
MaxStored == 2     \* rows the table holds at most when it is searched by similarity
MaxLimit == 2      \* the limit of a similarity search ranges over -1..MaxLimit
MaxCore == 3       \* rows the table holds at most when all core operations run together
MaxTasks == 2      \* tasks of the screens pending at once
MaxStarted == 2    \* tasks the screens start in all
MaxCallers == 2    \* coroutines that call get_pool and close_pool
MaxPools == 2      \* pools created in all
MaxCards == 2      \* cards in the flashcards file
MaxShown == 3      \* cards graded in one quiz
MaxExplains == 2   \* explain requests suspended at once
MaxTexts == 3      \* rows the table holds at most in a hybrid search, and its largest limit

\* --------------------------------------------------------- program constants
D == 768           \* embedding vector(768)

NULL == "<NULL>"   \* SQL NULL / Python None

\* Lengths an embedding list can have: empty, too short, exact, too long.
Dims == {0, 384, D, D + 1}

\* ------------------------------------------------------------------ vectors

\* An embedding stands here as a direction, in steps of 30 degrees, and a
\* length: the cosine distance of two vectors is a function of the angle
\* between them alone.  A Python list of floats is such a vector and its
\* number of elements (dim).
Vec(dir, mag) == [dir |-> dir, mag |-> mag]

ZeroVector == Vec(0, 0)

Embedded(dim, v) == [dim |-> dim, v |-> v]

\* The vector an embedding call returns when what matters is its length only.
SomeVector == Vec(0, 2)

\* "[" + ", ".join(str(x) for x in embedding) + "]" cast to vector: the
\* elements become float4.  The length 3 stands for a double that is no float4
\* and is stored as the nearest one.
Float4(mag) == IF mag = 3 THEN 2 ELSE mag

ToVector(v) == Vec(IF Float4(v.mag) = 0 THEN 0 ELSE v.dir, Float4(v.mag))

\* The angle between two directions, in steps of 30 degrees, 0..6.
Angle(a, b) ==
    LET k == (a.dir - b.dir + 12) % 12 IN IF k > 6 THEN 12 - k ELSE k

\* 1 - cos and 2 cos of 0, 30, ..., 180 degrees, in thousandths.
OneMinusCos == <<0, 134, 500, 1000, 1500, 1866, 2000>>

TwoCos == <<2000, 1732, 1000, 0, -1000, -1732, -2000>>

\* What <=> yields for a zero vector; the engine orders it after every number.
NaN == 9999

\* a <=> b: the cosine distance, in thousandths.
cosine_distance(a, b) ==
    IF a.mag = 0 \/ b.mag = 0 THEN NaN ELSE OneMinusCos[Angle(a, b) + 1]

\* a <-> b squared: the Euclidean distance, in thousandths.
l2_distance(a, b) ==
    1000 * (a.mag * a.mag + b.mag * b.mag) - a.mag * b.mag * TwoCos[Angle(a, b) + 1]

\* The vectors inserted and searched for: the zero vector, a vector,
\* the same direction at another length, and vectors 30 and 60 degrees away.
Vectors == {ZeroVector, Vec(0, 2), Vec(0, 3), Vec(1, 4), Vec(2, 2)}

\* The text of source record i, its username and the title its row carries.
Content(i) == <<"c1", "c2", "c3", "c4", "c5", "c6">>[i]
Username(i) == "user"
SrcTitle(i) == <<"t1", "t2", "t3", "t4", "t5", "t6">>[i]
GenTitle(i) == <<"g1", "g2", "g3", "g4", "g5", "g6">>[i]

\* The header of a CSV source: which optional title column it has.
Headers == {"none", "title", "session_title"}

VARIABLES db, run, last, prev, app, ui, connection, quiz

vars == <<db, run, last, prev, app, ui, connection, quiz>>

\* ------------------------------------------------------------ the database

\* Names of the similarity indexes the code manages.
IdxDefault == "idx_conversations_embedding"
IdxHnsw == "idx_conversations_hnsw"
IdxIvfflat == "idx_conversations_ivfflat"

EmptyDb ==
    [ext |-> FALSE, tbl |-> FALSE, rows |-> <<>>, seq |-> 0, indexes |-> {}]

HasIndex(d, name) == \E ix \in d.indexes : ix.name = name

IndexNamed(d, name) == CHOOSE ix \in d.indexes : ix.name = name

\* Variant of CreateIndexIfNotExists: a plain CREATE INDEX, an error when the
\* name exists.
CreateIndexPlain(d, name, method, ops, lists) ==
    IF ~d.tbl \/ \E ix \in d.indexes : ix.name = name THEN [ok |-> FALSE, db |-> d]
    ELSE [ok |-> TRUE,
          db |-> [d EXCEPT !.indexes = @ \cup
                    {[name |-> name, method |-> method, ops |-> ops, lists |-> lists]}]]

\* CREATE INDEX IF NOT EXISTS name ON conversations USING method (embedding ops)
\* WITH (...): an error without the table, a no-op when the name exists.
CreateIndexIfNotExists(d, name, method, ops, lists) ==
    IF ~d.tbl THEN [ok |-> FALSE, db |-> d]
    ELSE IF HasIndex(d, name) THEN [ok |-> TRUE, db |-> d]
    ELSE [ok |-> TRUE,
          db |-> [d EXCEPT !.indexes = @ \cup
                    {[name |-> name, method |-> method, ops |-> ops, lists |-> lists]}]]

\* create_schema: three statements, each committed on its own.  failAt is the
\* statement at which the connection fails: 0 = pool.acquire, 1 = CREATE
\* EXTENSION, 2 = CREATE TABLE, 3 = CREATE INDEX, NoFail = none.
NoFail == 4

\* Variant of create_schema: DROP TABLE conversations before CREATE TABLE.
create_schema_fresh(d, failAt) ==
    IF failAt < NoFail THEN [ok |-> FALSE, db |-> d]
    ELSE CreateIndexIfNotExists([ext |-> TRUE, tbl |-> TRUE, rows |-> <<>>, seq |-> 0,
                                 indexes |-> {}],
                                IdxDefault, "hnsw", "vector_cosine_ops", 0)

create_schema(d, failAt) ==
    IF failAt = 0 THEN [ok |-> FALSE, db |-> d]
    ELSE IF failAt = 1 THEN [ok |-> FALSE, db |-> d]
    ELSE IF failAt = 2 THEN [ok |-> FALSE, db |-> [d EXCEPT !.ext = TRUE]]
    ELSE IF failAt = 3 THEN [ok |-> FALSE, db |-> [d EXCEPT !.ext = TRUE, !.tbl = TRUE]]
    ELSE CreateIndexIfNotExists([d EXCEPT !.ext = TRUE, !.tbl = TRUE],
                                IdxDefault, "hnsw", "vector_cosine_ops", 0)

\* op.get(metric, 'vector_cosine_ops')
Metrics == {"cosine", "inner", "l2", "manhattan"}

OpClass(metric) ==
    CASE metric = "cosine" -> "vector_cosine_ops"
      [] metric = "inner" -> "vector_ip_ops"
      [] metric = "l2" -> "vector_l2_ops"
      [] OTHER -> "vector_cosine_ops"

\* What the returned text says: which kind, that it was "created", and the
\* parameter it names.
Description(kind, metric, lists) ==
    [kind |-> kind, status |-> "created", metric |-> metric, lists |-> lists]

NoValue == [kind |-> "none", status |-> "none", metric |-> NULL, lists |-> 0]

create_hnsw_index(d, metric, conn) ==
    IF ~conn THEN [ok |-> FALSE, db |-> d, val |-> NoValue]
    ELSE LET r == CreateIndexIfNotExists(d, IdxHnsw, "hnsw", OpClass(metric), 0)
         IN [ok |-> r.ok, db |-> r.db,
             val |-> IF r.ok THEN Description("hnsw", metric, 0) ELSE NoValue]

ListsChoices == {10, 100}

create_ivfflat_index(d, lists, conn) ==
    IF ~conn THEN [ok |-> FALSE, db |-> d, val |-> NoValue]
    ELSE LET r == CreateIndexIfNotExists(d, IdxIvfflat, "ivfflat", "vector_cosine_ops", lists)
         IN [ok |-> r.ok, db |-> r.db,
             val |-> IF r.ok THEN Description("ivfflat", NULL, lists) ELSE NoValue]

\* Variant of drop_indexes: plain DROP INDEX statements, an error as soon as
\* one of the names does not exist.
drop_indexes_plain(d, conn) ==
    IF ~conn THEN [ok |-> FALSE, db |-> d]
    ELSE IF ~HasIndex(d, IdxDefault) THEN [ok |-> FALSE, db |-> d]
    ELSE IF ~HasIndex(d, IdxHnsw)
         THEN [ok |-> FALSE,
               db |-> [d EXCEPT !.indexes = {ix \in @ : ix.name # IdxDefault}]]
    ELSE IF ~HasIndex(d, IdxIvfflat)
         THEN [ok |-> FALSE,
               db |-> [d EXCEPT !.indexes = {ix \in @ : ix.name \notin {IdxDefault, IdxHnsw}}]]
    ELSE [ok |-> TRUE,
          db |-> [d EXCEPT !.indexes =
                    {ix \in @ : ix.name \notin {IdxDefault, IdxHnsw, IdxIvfflat}}]]

\* DROP INDEX IF EXISTS for the three names: no error when none exists.
drop_indexes(d, conn) ==
    IF ~conn THEN [ok |-> FALSE, db |-> d]
    ELSE [ok |-> TRUE,
          db |-> [d EXCEPT !.indexes =
                    {ix \in @ : ix.name \notin {IdxDefault, IdxHnsw, IdxIvfflat}}]]

\* Variant of EngineAccepts: the column is declared vector, without a length.
EngineAcceptsAnyLength(username, content, embedding) ==
    /\ embedding.dim > 0
    /\ username # NULL
    /\ content # NULL

\* The engine's checks on INSERT INTO conversations (username, session_content,
\* session_title, embedding) VALUES ($1, $2, $3, $4::vector): the literal must
\* be a vector ("[]" is none), its length must be the column's, and username
\* and session_content are NOT NULL (the empty string is not NULL).
EngineAccepts(username, content, embedding) ==
    /\ embedding.dim > 0
    /\ embedding.dim = D
    /\ username # NULL
    /\ content # NULL

\* insert_conversation: one INSERT ... RETURNING id.  conn = FALSE is a failed
\* acquire or a lost connection; burn says whether a rejected row had already
\* drawn its id from the sequence.
insert_conversation(d, username, content, embedding, title, conn, burn) ==
    IF ~conn \/ ~d.tbl THEN [ok |-> FALSE, db |-> d, id |-> 0]
    ELSE IF ~EngineAccepts(username, content, embedding)
    THEN [ok |-> FALSE, db |-> [d EXCEPT !.seq = IF burn THEN @ + 1 ELSE @], id |-> 0]
    ELSE [ok |-> TRUE,
          db |-> [d EXCEPT !.seq = @ + 1,
                           !.rows = Append(@, [id |-> d.seq + 1,
                                               username |-> username,
                                               session_content |-> content,
                                               session_title |-> title,
                                               embedding |-> embedding])],
          id |-> d.seq + 1]

\* get_schema_stats: SELECT COUNT(*) FROM conversations, then the table's
\* indexes from pg_indexes; an error without the table.
get_schema_stats(d, conn) ==
    IF ~conn \/ ~d.tbl THEN [ok |-> FALSE, row_count |-> 0, indexes |-> {}]
    ELSE [ok |-> TRUE, row_count |-> Len(d.rows),
          indexes |-> {ix.name : ix \in d.indexes} \cup {"conversations_pkey"}]

\* ------------------------------------------------------------------ search

\* The sequences that list the domain of key in non-decreasing order of key:
\* what ORDER BY may deliver, rows of equal key in any order.
RECURSIVE Orderings(_)
Orderings(key) ==
    LET S == DOMAIN key IN
    IF S = {} THEN {<<>>}
    ELSE LET firsts == {x \in S : \A y \in S : key[x] <= key[y]}
         IN UNION {{<<x>> \o t : t \in Orderings([y \in S \ {x} |-> key[y]])} : x \in firsts}

\* LIMIT n.
Limit(s, n) == SubSeq(s, 1, IF n < Len(s) THEN n ELSE Len(s))

\* embedding <=> $1::vector AS distance
DistanceColumn(row, query) ==
    cosine_distance(ToVector(row.embedding.v), ToVector(query.v))

\* Variant of OrderKey: ORDER BY embedding <-> $1::vector.
OrderKeyL2(row, query) ==
    l2_distance(ToVector(row.embedding.v), ToVector(query.v))

\* Variant of OrderKey: ORDER BY embedding <=> $1::vector DESC.
OrderKeyDesc(row, query) ==
    0 - cosine_distance(ToVector(row.embedding.v), ToVector(query.v))

\* ORDER BY embedding <=> $1::vector
OrderKey(row, query) ==
    cosine_distance(ToVector(row.embedding.v), ToVector(query.v))

\* What the engine refuses in a search statement: no connection, no table, a
\* negative LIMIT, a vector literal without elements, and, once a row is
\* compared, a query vector of another length than the column's.
SearchRuns(d, query, limit, conn) ==
    /\ conn
    /\ d.tbl
    /\ limit >= 0
    /\ query.dim > 0
    /\ d.rows # <<>> => query.dim = D

\* search_similar: SELECT id, username, session_content, session_title,
\* embedding <=> $1::vector AS distance ... ORDER BY ... LIMIT $2.  results is
\* the set of lists the call may return.
search_similar(d, query, limit, conn) ==
    IF ~SearchRuns(d, query, limit, conn) THEN [ok |-> FALSE, results |-> {<<>>}]
    ELSE LET key == [i \in 1..Len(d.rows) |-> OrderKey(d.rows[i], query)]
             Out(i) == [id |-> d.rows[i].id,
                        username |-> d.rows[i].username,
                        session_content |-> d.rows[i].session_content,
                        session_title |-> d.rows[i].session_title,
                        distance |-> DistanceColumn(d.rows[i], query)]
         IN [ok |-> TRUE,
             results |-> {[j \in 1..Len(Limit(o, limit)) |-> Out(o[j])] : o \in Orderings(key)}]

\* How often the search text occurs in a content; an empty search text has no
\* lexeme and matches nothing.
SearchTexts == {"", "w"}

Occurrences(content, text) ==
    CASE text = "" -> 0
      [] content = "c1" -> 2
      [] content = "c2" -> 1
      [] OTHER -> 0

\* to_tsvector('english', session_content) @@ plainto_tsquery('english', $2)
Matches(content, text) == Occurrences(content, text) > 0

\* ts_rank(to_tsvector(...), plainto_tsquery(...)), in thousandths: 0 without
\* a match, larger with more occurrences.
ts_rank(content, text) == <<0, 61, 76>>[Occurrences(content, text) + 1]

\* Variant of Qualifies: no WHERE clause.
QualifiesAlways(row, query, text) == TRUE

\* WHERE ... @@ ... OR embedding <=> $1::vector < 0.5
Qualifies(row, query, text) ==
    \/ Matches(row.session_content, text)
    \/ DistanceColumn(row, query) < 500

\* ORDER BY rank DESC, embedding <=> $1::vector ASC, as one key.
CombinedKey(row, query, text) ==
    (1000 - ts_rank(row.session_content, text)) * 10000 + OrderKey(row, query)

\* search_combined: the rows that match the text or are nearer than 0.5, by
\* rank and then distance, LIMIT $3.
search_combined(d, query, text, limit, conn) ==
    IF ~SearchRuns(d, query, limit, conn) THEN [ok |-> FALSE, results |-> {<<>>}]
    ELSE LET S == {i \in 1..Len(d.rows) : Qualifies(d.rows[i], query, text)}
             key == [i \in S |-> CombinedKey(d.rows[i], query, text)]
             Out(i) == [id |-> d.rows[i].id,
                        username |-> d.rows[i].username,
                        session_content |-> d.rows[i].session_content,
                        session_title |-> d.rows[i].session_title,
                        distance |-> DistanceColumn(d.rows[i], query),
                        rank |-> ts_rank(d.rows[i].session_content, text)]
         IN [ok |-> TRUE,
             results |-> {[j \in 1..Len(Limit(o, limit)) |-> Out(o[j])] : o \in Orderings(key)}]

\* ------------------------------------------------------ embedding providers

Providers == {"ollama", "openrouter"}

\* What the embedding service answers: a response with a vector, no answer
\* (the service is unreachable), a response whose list of embeddings is empty,
\* a response that is not of the expected form.
Responses == {"vector", "unreachable", "empty", "malformed"}

\* The exception the client code meets for a response.
ExceptionOf(response) ==
    CASE response = "unreachable" -> "ConnectionError"
      [] response = "empty" -> "IndexError"
      [] response = "malformed" -> "KeyError"
      [] OTHER -> "none"

NoEmbedding == Embedded(0, ZeroVector)

\* Variant of ollama_get_embedding: on a failure of the local service the
\* cloud provider is asked, and answers.
ollama_get_embedding_fallback(response, dim) ==
    IF response = "vector"
    THEN [ok |-> TRUE, embedding |-> Embedded(dim, SomeVector),
          error |-> "none", cause |-> "none", requests |-> 0]
    ELSE [ok |-> TRUE, embedding |-> Embedded(D, SomeVector),
          error |-> "none", cause |-> "none", requests |-> 1]

\* embedding.ollama.get_embedding: response["embeddings"][0] of ollama.embed,
\* whatever its length; any exception becomes a RuntimeError whose message
\* holds the text of the cause.  requests counts the calls to the cloud
\* provider.
ollama_get_embedding(response, dim) ==
    IF response = "vector"
    THEN [ok |-> TRUE, embedding |-> Embedded(dim, SomeVector),
          error |-> "none", cause |-> "none", requests |-> 0]
    ELSE [ok |-> FALSE, embedding |-> NoEmbedding,
          error |-> "RuntimeError", cause |-> ExceptionOf(response), requests |-> 0]

\* Variant of openrouter_get_embedding: the key is looked at after the
\* request was sent.
openrouter_get_embedding_late(api_key, response, dim) ==
    IF ~api_key
    THEN [ok |-> FALSE, embedding |-> NoEmbedding,
          error |-> "ValueError", cause |-> "no api key", requests |-> 1]
    ELSE IF response = "vector"
    THEN [ok |-> TRUE, embedding |-> Embedded(dim, SomeVector),
          error |-> "none", cause |-> "none", requests |-> 1]
    ELSE [ok |-> FALSE, embedding |-> NoEmbedding,
          error |-> ExceptionOf(response), cause |-> ExceptionOf(response), requests |-> 1]

\* embedding.openrouter.get_embedding: ValueError without an API key, before
\* the HTTP client is created; else one POST, whose exceptions are not
\* wrapped, and data["data"][0]["embedding"] of the answer.
openrouter_get_embedding(api_key, response, dim) ==
    IF ~api_key
    THEN [ok |-> FALSE, embedding |-> NoEmbedding,
          error |-> "ValueError", cause |-> "no api key", requests |-> 0]
    ELSE IF response = "vector"
    THEN [ok |-> TRUE, embedding |-> Embedded(dim, SomeVector),
          error |-> "none", cause |-> "none", requests |-> 1]
    ELSE [ok |-> FALSE, embedding |-> NoEmbedding,
          error |-> ExceptionOf(response), cause |-> ExceptionOf(response), requests |-> 1]

\* ----------------------------------------------------------------- explain

\* The statements handed to explain_query: a SELECT on conversations, a text
\* that is not SQL, and a DELETE FROM conversations.
Statements == {"select", "invalid", "delete"}

\* What can go wrong around the statement: pool.acquire() fails, or the
\* command times out.
Faults == {"none", "acquire", "timeout"}

\* pool.acquire() and conn.fetch("EXPLAIN (ANALYZE, BUFFERS, FORMAT TEXT) " +
\* query): the exception raised, if any, and the database afterwards.
\* ANALYZE runs the statement.
ExplainAnalyze(d, query, fault) ==
    IF fault = "acquire" THEN [exc |-> "ConnectionError", db |-> d]
    ELSE IF query = "invalid" THEN [exc |-> "PostgresSyntaxError", db |-> d]
    ELSE IF ~d.tbl THEN [exc |-> "UndefinedTableError", db |-> d]
    ELSE IF fault = "timeout" THEN [exc |-> "TimeoutError", db |-> d]
    ELSE [exc |-> "none",
          db |-> IF query = "delete" THEN [d EXCEPT !.rows = <<>>] ELSE d]

\* Variant of explain_query: the try block is inside async with, so a failure
\* of pool.acquire() is not caught.
explain_query_narrow(d, query, fault) ==
    LET r == ExplainAnalyze(d, query, fault) IN
    IF r.exc = "none" THEN [ok |-> TRUE, text |-> "plan", cause |-> "none", db |-> r.db]
    ELSE IF r.exc = "ConnectionError"
    THEN [ok |-> FALSE, text |-> NULL, cause |-> r.exc, db |-> r.db]
    ELSE [ok |-> TRUE, text |-> "error", cause |-> r.exc, db |-> r.db]

\* explain_query: the plan text, or, on any Exception,
\* f"Error: {type(e).__name__}: {e}".  ok says that the call returned.
explain_query(d, query, fault) ==
    LET r == ExplainAnalyze(d, query, fault) IN
    IF r.exc = "none" THEN [ok |-> TRUE, text |-> "plan", cause |-> "none", db |-> r.db]
    ELSE [ok |-> TRUE, text |-> "error", cause |-> r.exc, db |-> r.db]

\* ------------------------------------------------- calls on the store's API

\* The last call made on the API and the one before it.
NoCall ==
    [op |-> "none", metric |-> NULL, lists |-> 0, content |-> NULL, dim |-> 0,
     embedding |-> Embedded(0, ZeroVector), text |-> NULL, limit |-> 0, found |-> <<>>,
     statement |-> NULL, fault |-> "none", returned |-> NULL, cause |-> "none",
     provider |-> NULL, api_key |-> FALSE, response |-> "none", error |-> "none",
     requests |-> 0, row_count |-> 0,
     conn |-> TRUE, ok |-> TRUE, val |-> NoValue, id |-> 0, pre |-> EmptyDb]

\* What is kept of the call before the last: which operation, whether the
\* connection held, whether it raised, and whether the table existed before it.
Brief(c) == [op |-> c.op, conn |-> c.conn, ok |-> c.ok, tbl |-> c.pre.tbl]

Call(op, conn, r, pre) ==
    [NoCall EXCEPT !.op = op, !.conn = conn, !.ok = r.ok, !.pre = pre]

StoreFrame == UNCHANGED <<run, app, ui, connection, quiz>>

EnsureSchema(failAt) ==
    LET r == create_schema(db, failAt) IN
    /\ db' = r.db
    /\ last' = Call("ensure_schema", failAt = NoFail, r, db)
    /\ prev' = Brief(last)
    /\ StoreFrame

CreateHnsw(metric, conn) ==
    LET r == create_hnsw_index(db, metric, conn) IN
    /\ db' = r.db
    /\ last' = [Call("create_hnsw_index", conn, r, db) EXCEPT !.metric = metric, !.val = r.val]
    /\ prev' = Brief(last)
    /\ StoreFrame

CreateIvfflat(lists, conn) ==
    LET r == create_ivfflat_index(db, lists, conn) IN
    /\ db' = r.db
    /\ last' = [Call("create_ivfflat_index", conn, r, db) EXCEPT !.lists = lists, !.val = r.val]
    /\ prev' = Brief(last)
    /\ StoreFrame

DropIndexes(conn) ==
    LET r == drop_indexes(db, conn) IN
    /\ db' = r.db
    /\ last' = Call("drop_indexes", conn, r, db)
    /\ prev' = Brief(last)
    /\ StoreFrame

\* A direct insert_conversation call.
Insert(content, dim, conn, burn) ==
    LET r == insert_conversation(db, Username(1), content, Embedded(dim, SomeVector), NULL, conn, burn) IN
    /\ Len(db.rows) < MaxRows
    /\ burn => db.seq < MaxSeq
    /\ db' = r.db
    /\ last' = [Call("insert", conn, r, db) EXCEPT !.content = content, !.dim = dim, !.id = r.id]
    /\ prev' = Brief(last)
    /\ StoreFrame

\* insert_conversation with an embedding of the column's length, on a table
\* of fewer than max rows whose ids have not reached MaxRows.
InsertVector(content, v, max) ==
    LET r == insert_conversation(db, Username(1), content, Embedded(D, v), NULL, TRUE, FALSE) IN
    /\ Len(db.rows) < max
    /\ db.seq < MaxRows
    /\ db' = r.db
    /\ last' = [Call("insert", TRUE, r, db) EXCEPT
                   !.content = content, !.dim = D, !.embedding = Embedded(D, v), !.id = r.id]
    /\ prev' = Brief(last)
    /\ StoreFrame

\* A search_similar call and the list it returned ([] when it raised).
SearchSimilar(v, dim, limit, conn) ==
    /\ ~conn \/ dim # D => v = SomeVector /\ limit = 1
    /\ \E r \in {search_similar(db, Embedded(dim, v), limit, conn)} : \E found \in r.results :
          last' = [Call("search_similar", conn, r, db) EXCEPT
                      !.embedding = Embedded(dim, v), !.limit = limit, !.found = found]
    /\ prev' = Brief(last)
    /\ UNCHANGED db
    /\ StoreFrame

\* A search_combined call and the list it returned ([] when it raised).
SearchCombined(v, dim, text, limit, conn) ==
    /\ v = ZeroVector => limit = MaxTexts
    /\ \E r \in {search_combined(db, Embedded(dim, v), text, limit, conn)} :
       \E found \in r.results :
          last' = [Call("search_combined", conn, r, db) EXCEPT
                      !.embedding = Embedded(dim, v), !.text = text,
                      !.limit = limit, !.found = found]
    /\ prev' = Brief(last)
    /\ UNCHANGED db
    /\ StoreFrame

\* A get_schema_stats call and the row count it returned.
Stats(conn) ==
    LET r == get_schema_stats(db, conn) IN
    /\ last' = [Call("get_schema_stats", conn, r, db) EXCEPT !.row_count = r.row_count]
    /\ prev' = Brief(last)
    /\ UNCHANGED db
    /\ StoreFrame

\* An explain_query call and what it returned.
ExplainQuery(query, fault) ==
    LET r == explain_query(db, query, fault) IN
    /\ db' = r.db
    /\ last' = [Call("explain_query", fault # "acquire", r, db) EXCEPT
                   !.statement = query, !.fault = fault,
                   !.returned = r.text, !.cause = r.cause]
    /\ prev' = Brief(last)
    /\ StoreFrame

\* A get_embedding call of the provider the caller imported, with the API key
\* configured or not, and what the service answered.
GetEmbedding(provider, content, api_key, response, dim) ==
    LET r == IF provider = "ollama" THEN ollama_get_embedding(response, dim)
             ELSE openrouter_get_embedding(api_key, response, dim)
    IN
    /\ response # "vector" => dim = D
    /\ last' = [Call("get_embedding", TRUE, r, db) EXCEPT
                   !.provider = provider, !.content = content, !.api_key = api_key,
                   !.response = response, !.embedding = r.embedding,
                   !.error = r.error, !.cause = r.cause, !.requests = r.requests]
    /\ prev' = Brief(last)
    /\ UNCHANGED db
    /\ StoreFrame

\* ------------------------------------------------------------ one ingest run

Functions == {"ingest_csv", "load_csv"}

NoFailure == [kind |-> "none", rec |-> 0]

\* The state of a run of ingest_csv / load_csv: where control is (pc), the
\* arguments, the reader's position, the locals batch and count, the record of
\* the batch being processed (bi), and the calls awaited (inflight).  base is
\* the number of rows the table held when the run began; trace and failure
\* record what the run did.
NoRun ==
    [pc |-> "Idle", fn |-> "ingest_csv", n |-> 0, hdr |-> "none", batch_size |-> 1,
     pos |-> 0, batch |-> <<>>, bi |-> 0, phase |-> "loop", count |-> 0,
     embedding |-> Embedded(0, ZeroVector), title |-> NULL, inflight |-> {},
     base |-> 0, trace |-> <<>>, failure |-> NoFailure]

Log(r, ev, rec) == [r EXCEPT !.trace = Append(@, [ev |-> ev, rec |-> rec])]

Await(r, call, rec) == [r EXCEPT !.inflight = @ \cup {[call |-> call, rec |-> rec]}]

Returned(r, call, rec) == [r EXCEPT !.inflight = @ \ {[call |-> call, rec |-> rec]}]

\* An exception leaves the function: nothing catches it.
Raise(r, kind, rec) ==
    [r EXCEPT !.pc = "Failed", !.failure = [kind |-> kind, rec |-> rec]]

\* embedding = await get_embedding(content), for the bi-th record of the batch.
BeginRecord(r, bi) ==
    Log(Await([r EXCEPT !.pc = "Embedding", !.bi = bi], "get_embedding", r.batch[bi]),
        "embed", r.batch[bi])

\* if len(batch) >= batch_size: for ... in batch
AfterRow(r) ==
    IF Len(r.batch) >= r.batch_size
    THEN BeginRecord([r EXCEPT !.phase = "loop"], 1)
    ELSE r

\* Variant of AtEOF: the records left in batch after the reader's loop are dropped.
AtEOFDropsTail(r) == [r EXCEPT !.pc = "Completed"]

\* The reader is exhausted: the loop over what is left in batch, then return.
AtEOF(r) ==
    IF r.batch = <<>>
    THEN [r EXCEPT !.pc = "Completed"]
    ELSE BeginRecord([r EXCEPT !.phase = "tail"], 1)

\* count += 1, then the next record of the batch; after the last one, batch = []
\* and back to the reader, or return count.
AfterInsert(r) ==
    IF r.bi < Len(r.batch) THEN BeginRecord(r, r.bi + 1)
    ELSE IF r.phase = "loop" THEN [r EXCEPT !.pc = "Reading", !.batch = <<>>, !.bi = 0]
    ELSE [r EXCEPT !.pc = "Completed"]

\* title = row.get('title') in ingest_csv.
RowTitle(hdr, i) == IF hdr = "title" THEN SrcTitle(i) ELSE NULL

\* Variant of IssueInsert: the insert is started but not awaited, and the loop
\* goes on to the next record.
IssueInsertNoAwait(r, i, embedding, title) ==
    AfterInsert(Log(Await([r EXCEPT !.embedding = embedding, !.title = title],
                          "insert_conversation", i),
                    "insert", i))

\* await insert_conversation(pool, username, content, embedding, title=title)
IssueInsert(r, i, embedding, title) ==
    Log(Await([r EXCEPT !.pc = "Inserting", !.embedding = embedding, !.title = title],
              "insert_conversation", i),
        "insert", i)

\* Variant of OnEmbedding: a record whose embedding fails is skipped and the
\* batch goes on.
OnEmbeddingSkips(r, i, embOk, embedding, titleOk) ==
    IF ~embOk THEN AfterInsert(Log(r, "embed_err", i))
    ELSE IF r.fn = "ingest_csv"
    THEN IssueInsert(Log(r, "embed_ok", i), i, embedding, RowTitle(r.hdr, i))
    ELSE IF ~titleOk
    THEN Raise(Log(Log(r, "embed_ok", i), "title", i), "title", i)
    ELSE IssueInsert(Log(Log(r, "embed_ok", i), "title", i), i, embedding, GenTitle(i))

\* get_embedding has returned or raised; load_csv then calls generate_title.
OnEmbedding(r, i, embOk, embedding, titleOk) ==
    IF ~embOk THEN Raise(Log(r, "embed_err", i), "embed", i)
    ELSE IF r.fn = "ingest_csv"
    THEN IssueInsert(Log(r, "embed_ok", i), i, embedding, RowTitle(r.hdr, i))
    ELSE IF ~titleOk
    THEN Raise(Log(Log(r, "embed_ok", i), "title", i), "title", i)
    ELSE IssueInsert(Log(Log(r, "embed_ok", i), "title", i), i, embedding, GenTitle(i))

\* insert_conversation has returned (its id is not kept) or raised.
OnInsert(r, i, ok) ==
    IF ~ok THEN Raise(Log(r, "insert_err", i), "insert", i)
    ELSE AfterInsert(Log([r EXCEPT !.count = @ + 1], "insert_ok", i))

\* Variant of OnSchema: a failure of create_schema is not looked at.
OnSchemaUnchecked(r, ok, fileOk) ==
    IF ~fileOk THEN Raise(r, "open", 0)
    ELSE IF ok THEN Log([r EXCEPT !.pc = "Reading"], "schema_ok", 0)
    ELSE [r EXCEPT !.pc = "Reading"]

\* create_schema has returned or raised; then open(filepath).
OnSchema(r, ok, fileOk) ==
    IF ~ok THEN Raise(r, "schema", 0)
    ELSE IF ~fileOk THEN Raise(Log(r, "schema_ok", 0), "open", 0)
    ELSE Log([r EXCEPT !.pc = "Reading"], "schema_ok", 0)

\* pool = await get_pool() (ingest_csv only), then await create_schema(pool).
OnStart(r, poolOk) ==
    IF r.fn = "ingest_csv" /\ ~poolOk THEN Raise(r, "pool", 0)
    ELSE Await([r EXCEPT !.pc = "Schema"], "create_schema", 0)

RunFrame == UNCHANGED <<last, prev, app, ui, connection, quiz>>

StartIngest(fn, n, hdr, batch_size, poolOk) ==
    /\ run.pc \in {"Idle", "Completed", "Failed"}
    /\ Len(db.rows) <= MaxSeed
    /\ Len(db.rows) + n <= MaxRows
    /\ fn = "load_csv" => poolOk
    /\ run' = OnStart([NoRun EXCEPT !.fn = fn, !.n = n, !.hdr = hdr,
                                    !.batch_size = batch_size,
                                    !.base = Len(db.rows)], poolOk)
    /\ UNCHANGED db
    /\ RunFrame

SchemaReturn(failAt, fileOk) ==
    LET r == create_schema(db, failAt) IN
    /\ run.pc = "Schema"
    /\ ~r.ok => fileOk
    /\ db' = r.db
    /\ run' = OnSchema(Returned(run, "create_schema", 0), r.ok, fileOk)
    /\ RunFrame

\* for row in reader: the next row, a reader error, or the end of the file.
ReadRow(rowOk) ==
    /\ run.pc = "Reading"
    /\ run' = IF run.pos < run.n
              THEN IF rowOk
                   THEN AfterRow([run EXCEPT !.pos = @ + 1, !.batch = Append(@, run.pos + 1)])
                   ELSE Raise(run, "read", run.pos + 1)
              ELSE AtEOF(run)
    /\ run.pos >= run.n => rowOk
    /\ UNCHANGED db
    /\ RunFrame

EmbedReturn(embOk, dim, titleOk) ==
    LET i == run.batch[run.bi] IN
    /\ run.pc = "Embedding"
    /\ ~embOk => dim = D /\ titleOk
    /\ run.fn = "ingest_csv" => titleOk
    /\ run' = OnEmbedding(Returned(run, "get_embedding", i), i, embOk,
                            Embedded(dim, SomeVector), titleOk)
    /\ UNCHANGED db
    /\ RunFrame

InsertReturn(conn, burn) ==
    LET i == run.batch[run.bi]
        r == insert_conversation(db, Username(i), Content(i), run.embedding, run.title, conn, burn)
    IN
    /\ run.pc = "Inserting"
    /\ burn => db.seq < MaxSeq /\ conn /\ run.embedding.dim # D
    /\ db' = r.db
    /\ run' = OnInsert(Returned(run, "insert_conversation", i), i, r.ok)
    /\ RunFrame

RunStep ==
    \/ \E failAt \in 0..NoFail, fileOk \in BOOLEAN : SchemaReturn(failAt, fileOk)
    \/ \E rowOk \in BOOLEAN : ReadRow(rowOk)
    \/ \E embOk \in BOOLEAN, dim \in Dims, titleOk \in BOOLEAN : EmbedReturn(embOk, dim, titleOk)
    \/ \E conn \in BOOLEAN, burn \in BOOLEAN : InsertReturn(conn, burn)

NextIngest ==
    \/ \E fn \in Functions, n \in 0..MaxN, hdr \in Headers, batch_size \in 1..MaxBatch,
          poolOk \in BOOLEAN : StartIngest(fn, n, hdr, batch_size, poolOk)
    \/ RunStep

\* ------------------------------------------------------------ the application

Screens == {"ingest", "search", "explain", "indexes", "playground"}

NoRead == [op |-> "none", ensured |-> FALSE, tbl |-> FALSE]

\* VectorDBApp: where it is (pc: Start before on_mount, Running once the home
\* screen is pushed, Crashed when on_mount raised), the screen on top, the
\* fields pool, connected and row_count, and what the screen shows.  ensured
\* says whether this application has completed a create_schema since it
\* started; first is the first search/stats/explain call it made.
NoApp ==
    [pc |-> "Start", screen |-> "none", pool |-> FALSE, connected |-> FALSE,
     row_count |-> 0, shown |-> "none", ensured |-> FALSE, first |-> NoRead]

\* A search, stats or explain call is made on the store.
Reads(a, op, d) ==
    IF a.first.op = "none"
    THEN [a EXCEPT !.first = [op |-> op, ensured |-> a.ensured, tbl |-> d.tbl]]
    ELSE a

AppFrame == UNCHANGED <<run, last, prev, ui, connection, quiz>>

\* VectorDBApp.on_mount: get_pool, test_connection, then get_schema_stats when
\* connected, then push_screen("home").  Nothing catches what they raise.
OnMount(poolOk, connOk) ==
    LET a1 == [app EXCEPT !.pool = TRUE, !.connected = connOk]
        stats == get_schema_stats(db, TRUE)
    IN
    /\ app.pc = "Start"
    /\ ~poolOk => ~connOk
    /\ app' = IF ~poolOk THEN [app EXCEPT !.pc = "Crashed"]
              ELSE IF ~connOk THEN [a1 EXCEPT !.pc = "Running", !.screen = "home"]
              ELSE IF ~stats.ok THEN [Reads(a1, "get_schema_stats", db) EXCEPT !.pc = "Crashed"]
              ELSE [Reads(a1, "get_schema_stats", db) EXCEPT
                       !.pc = "Running", !.screen = "home", !.row_count = stats.row_count]
    /\ UNCHANGED db
    /\ AppFrame

\* IndexScreen.load_indexes: get_schema_stats inside try/except.
load_indexes(a, d, conn) ==
    [Reads(a, "get_schema_stats", d) EXCEPT
        !.shown = IF get_schema_stats(d, conn).ok THEN "indexes" ELSE "error"]

\* HomeScreen.on_button_pressed: push the screen; IndexScreen.on_mount loads
\* the indexes.
HomeButton(id, conn) ==
    /\ app.pc = "Running" /\ app.screen = "home"
    /\ id # "indexes" => conn
    /\ app' = IF id = "indexes"
              THEN load_indexes([app EXCEPT !.screen = id], db, conn)
              ELSE [app EXCEPT !.screen = id, !.shown = "none"]
    /\ UNCHANGED db
    /\ AppFrame

\* The back button of a screen: pop_screen.
Back ==
    /\ app.pc = "Running" /\ app.screen \in Screens
    /\ app' = [app EXCEPT !.screen = "home", !.shown = "none"]
    /\ UNCHANGED db
    /\ AppFrame

\* SearchScreen do_search with a non-empty query: get_embedding, then
\* search_similar(pool, embedding, limit=10); every exception is shown.
SearchPressed(embOk, conn) ==
    /\ app.pc = "Running" /\ app.screen = "search"
    /\ ~embOk => conn
    /\ app' = IF ~embOk THEN [app EXCEPT !.shown = "error"]
              ELSE [Reads(app, "search_similar", db) EXCEPT
                       !.shown = IF ~conn \/ ~db.tbl THEN "error"
                                 ELSE IF db.rows = <<>> THEN "no results"
                                 ELSE "results"]
    /\ UNCHANGED db
    /\ AppFrame

\* The records 1..k of the file as load_csv persists them: the embedding of
\* the content, a generated title.
RECURSIVE LoadRecords(_, _)
LoadRecords(d, k) ==
    IF k = 0 THEN d
    ELSE insert_conversation(LoadRecords(d, k - 1), Username(k), Content(k),
                             Embedded(D, SomeVector), GenTitle(k), TRUE, FALSE).db

\* A whole load_csv call on a file of n records: create_schema, then the
\* records one by one until the k-th is persisted; it returns when k = n and
\* raises otherwise.
LoadCsv(failAt, n, k) ==
    LET r == create_schema(db, failAt) IN
    /\ Len(db.rows) + k <= MaxRows
    /\ k <= n
    /\ ~r.ok => k = 0
    /\ db' = IF r.ok THEN LoadRecords(r.db, k) ELSE r.db
    /\ last' = [Call("load_csv", failAt = NoFail, [ok |-> r.ok /\ k = n], db) EXCEPT
                   !.row_count = k]
    /\ prev' = Brief(last)
    /\ StoreFrame

\* IngestScreen do_ingest: create_schema(pool), then load_csv(pool, path),
\* which persists k of the file's n records before it returns (k = n) or
\* raises; every exception is shown.
IngestPressed(failAt, n, k) ==
    LET r == create_schema(db, failAt) IN
    /\ app.pc = "Running" /\ app.screen = "ingest"
    /\ Len(db.rows) <= MaxSeed
    /\ k <= n
    /\ ~r.ok => k = 0 /\ n = 0
    /\ db' = IF r.ok THEN LoadRecords(r.db, k) ELSE r.db
    /\ app' = [app EXCEPT !.ensured = @ \/ r.ok,
                          !.shown = IF r.ok /\ k = n THEN "ingested" ELSE "error"]
    /\ AppFrame

\* ExplainScreen explain_cosine / explain_l2 / explain_inner: explain_query on
\* a SELECT ... FROM conversations ORDER BY embedding <op> vector LIMIT 10.
ExplainPressed(conn) ==
    /\ app.pc = "Running" /\ app.screen = "explain"
    /\ app' = [Reads(app, "explain_query", db) EXCEPT !.shown = explain_query(db, "select", IF conn THEN "none" ELSE "acquire").text]
    /\ UNCHANGED db
    /\ AppFrame

IndexButtons == {"create_hnsw", "create_ivfflat", "drop_idx", "refresh_idx"}

\* IndexScreen.on_button_pressed: the index operation with its default
\* argument, then load_indexes; an exception of the operation is shown.
IndexPressed(id, conn) ==
    LET r == CASE id = "create_hnsw" -> create_hnsw_index(db, "cosine", conn)
               [] id = "create_ivfflat" -> create_ivfflat_index(db, 10, conn)
               [] id = "drop_idx" -> drop_indexes(db, conn)
               [] id = "refresh_idx" -> [ok |-> TRUE, db |-> db]
    IN
    /\ app.pc = "Running" /\ app.screen = "indexes"
    /\ db' = r.db
    /\ app' = IF r.ok THEN load_indexes(app, r.db, conn)
              ELSE [app EXCEPT !.shown = "error"]
    /\ AppFrame

\* Before the application starts, another client (the ingest command line)
\* may have ensured the schema.
PreparedElsewhere ==
    /\ app.pc = "Start"
    /\ ~db.tbl
    /\ db' = create_schema(db, NoFail).db
    /\ UNCHANGED app
    /\ AppFrame

\* ------------------------------------------------------- the screens' tasks

\* What a button of a screen spawns with asyncio.create_task.
TaskKinds ==
    {"search", "ingest", "explain", "create_hnsw", "create_ivfflat", "drop_idx",
     "refresh_idx", "run_sql"}

\* The screen a task belongs to; it writes to that screen's output panel
\* (#results, #progress_log, #explain_output, #index_info, #sql_results).
ScreenOf(kind) ==
    CASE kind = "search" -> "search"
      [] kind = "ingest" -> "ingest"
      [] kind = "explain" -> "explain"
      [] kind = "run_sql" -> "playground"
      [] OTHER -> "indexes"

NoPanel == [text |-> "initial", of |-> 0]

NoEnded == [no |-> 0, kind |-> "none", failed |-> FALSE, raised |-> FALSE, found |-> 0]

\* The screens: the tasks spawned and not finished (no is the order in which
\* they were started, pc where a task is suspended), the number of tasks
\* started, the number of the search started last, what each output panel
\* shows and which task wrote it, whether an exception has left a task, and
\* the task that finished last (failed: its store or embedding operation
\* failed; raised: its try block raised; found: records its search returned).
NoUi ==
    [tasks |-> {}, started |-> 0, searched |-> 0,
     panel |-> [s \in Screens |-> NoPanel], escaped |-> FALSE, ended |-> NoEnded]

\* Variant of Finish: the task's body has no try ... except.
FinishBare(u, t, failed, raised, text, found) ==
    [u EXCEPT !.tasks = @ \ {t},
              !.panel[ScreenOf(t.kind)] =
                  IF raised THEN @
                  ELSE IF text = "unchanged" THEN @ ELSE [text |-> text, of |-> t.no],
              !.escaped = @ \/ raised,
              !.ended = [no |-> t.no, kind |-> t.kind, failed |-> failed,
                         raised |-> raised, found |-> found]]

\* The end of a task whose body is try: ... except Exception as e:
\* <panel>.update(f"Error: {e}"): the panel shows the error when the body
\* raised and what the body wrote last when it did not.
Finish(u, t, failed, raised, text, found) ==
    [u EXCEPT !.tasks = @ \ {t},
              !.panel[ScreenOf(t.kind)] =
                  IF raised THEN [text |-> "error", of |-> t.no]
                  ELSE IF text = "unchanged" THEN @ ELSE [text |-> text, of |-> t.no],
              !.ended = [no |-> t.no, kind |-> t.kind, failed |-> failed,
                         raised |-> raised, found |-> found]]

UiFrame == UNCHANGED <<run, last, prev, app, connection, quiz>>

\* A button of the screen on top that starts a task: asyncio.create_task.
Pressed(kind) ==
    /\ app.pc = "Running" /\ app.screen = ScreenOf(kind)
    /\ Cardinality(ui.tasks) < MaxTasks
    /\ ui.started < MaxStarted
    /\ ui' = [ui EXCEPT !.started = @ + 1,
                        !.searched = IF kind = "search" THEN ui.started + 1 ELSE @,
                        !.tasks = @ \cup {[kind |-> kind, no |-> ui.started + 1,
                                           pc |-> "spawned"]}]
    /\ UNCHANGED db
    /\ UiFrame

\* SearchScreen's Clear button.
ClearPressed ==
    /\ app.pc = "Running" /\ app.screen = "search"
    /\ ui.panel["search"] # NoPanel
    /\ ui' = [ui EXCEPT !.panel["search"] = NoPanel]
    /\ UNCHANGED db
    /\ UiFrame

Moved(u, t, pc, text) ==
    [u EXCEPT !.tasks = (@ \ {t}) \cup {[t EXCEPT !.pc = pc]},
              !.panel[ScreenOf(t.kind)] = [text |-> text, of |-> t.no]]

\* run_search up to await get_embedding(query).
SearchBegins(t) ==
    /\ t \in ui.tasks /\ t.kind = "search" /\ t.pc = "spawned"
    /\ ui' = Moved(ui, t, "embedding", "generating")
    /\ UNCHANGED db
    /\ UiFrame

\* run_search from get_embedding's result up to await search_similar(...).
SearchEmbedded(t, embOk) ==
    /\ t \in ui.tasks /\ t.kind = "search" /\ t.pc = "embedding"
    /\ ui' = IF embOk THEN Moved(ui, t, "searching", "searching")
             ELSE Finish(ui, t, TRUE, TRUE, "error", 0)
    /\ UNCHANGED db
    /\ UiFrame

\* for r in results: ... r.get('session_title', 'Untitled')[:40]: the key is
\* present in every record, so get returns the column's value, and None[:40]
\* raises TypeError.
Renders(found) == \A j \in 1..Len(found) : found[j].session_title # NULL

\* run_search from search_similar's result to its end.
SearchFinished(t, conn) ==
    /\ t \in ui.tasks /\ t.kind = "search" /\ t.pc = "searching"
    /\ \E r \in {search_similar(db, Embedded(D, SomeVector), 10, conn)} :
          \E found \in r.results :
             ui' = IF ~r.ok THEN Finish(ui, t, TRUE, TRUE, "error", 0)
                   ELSE IF found = <<>> THEN Finish(ui, t, FALSE, FALSE, "no results", 0)
                   ELSE Finish(ui, t, FALSE, ~Renders(found), "results", Len(found))
    /\ UNCHANGED db
    /\ UiFrame

\* do_ingest: create_schema(pool), then load_csv(pool, path), which persists
\* k of the file's n records before it returns (k = n) or raises.
IngestTask(t, failAt, n, k) ==
    LET r == create_schema(db, failAt) IN
    /\ t \in ui.tasks /\ t.kind = "ingest" /\ t.pc = "spawned"
    /\ Len(db.rows) <= MaxSeed
    /\ k <= n
    /\ ~r.ok => k = 0 /\ n = 0
    /\ db' = IF r.ok THEN LoadRecords(r.db, k) ELSE r.db
    /\ ui' = Finish(ui, t, ~(r.ok /\ k = n), ~(r.ok /\ k = n), "ingested", 0)
    /\ UiFrame

\* run_explain: explain_query returns the plan or the error text, which is
\* shown.
ExplainTask(t, conn) ==
    LET r == explain_query(db, "select", IF conn THEN "none" ELSE "acquire") IN
    /\ t \in ui.tasks /\ t.kind = "explain" /\ t.pc = "spawned"
    /\ db' = r.db
    /\ ui' = Finish(ui, t, r.cause # "none", ~r.ok, r.text, 0)
    /\ UiFrame

\* create_idx / drop_idx: the index operation with its default argument, then
\* load_indexes, which shows the indexes or its own error; the Refresh button
\* runs load_indexes alone.
IndexTask(t, conn) ==
    LET r == CASE t.kind = "create_hnsw" -> create_hnsw_index(db, "cosine", conn)
               [] t.kind = "create_ivfflat" -> create_ivfflat_index(db, 10, conn)
               [] t.kind = "drop_idx" -> drop_indexes(db, conn)
               [] OTHER -> [ok |-> TRUE, db |-> db]
        stats == get_schema_stats(r.db, conn)
    IN
    /\ t \in ui.tasks /\ ScreenOf(t.kind) = "indexes" /\ t.pc = "spawned"
    /\ db' = r.db
    /\ ui' = IF ~r.ok THEN Finish(ui, t, TRUE, TRUE, "error", 0)
             ELSE Finish(ui, t, ~stats.ok, FALSE, IF stats.ok THEN "indexes" ELSE "error", 0)
    /\ UiFrame

\* conn.fetch(query) of the playground: the rows of a SELECT, none for a
\* DELETE, which removes the table's rows.
fetch(d, query, conn) ==
    IF ~conn \/ query = "invalid" \/ ~d.tbl THEN [ok |-> FALSE, db |-> d, rows |-> 0]
    ELSE IF query = "delete" THEN [ok |-> TRUE, db |-> [d EXCEPT !.rows = <<>>], rows |-> 0]
    ELSE [ok |-> TRUE, db |-> d, rows |-> Len(d.rows)]

\* run_q: a line per row returned, or the error.
SqlTask(t, query, conn) ==
    LET r == fetch(db, query, conn) IN
    /\ t \in ui.tasks /\ t.kind = "run_sql" /\ t.pc = "spawned"
    /\ db' = r.db
    /\ ui' = Finish(ui, t, ~r.ok, ~r.ok, IF r.rows > 0 THEN "rows" ELSE "unchanged", 0)
    /\ UiFrame

\* The ingest command line has persisted a record of a source with the given
\* header before the application starts (ingest_csv: title = row.get('title')).
IngestedElsewhere(hdr) ==
    LET d == create_schema(db, NoFail).db
        title == IF hdr = "title" THEN SrcTitle(1) ELSE NULL
    IN
    /\ app.pc = "Start"
    /\ Len(db.rows) < MaxSeed
    /\ db' = insert_conversation(d, Username(1), Content(1), Embedded(D, SomeVector),
                                 title, TRUE, FALSE).db
    /\ UNCHANGED ui
    /\ UiFrame

NoTask == [kind |-> "none", no |-> 0, pc |-> "none"]

\* The pending task that was started as the no-th.
TaskNo(no) ==
    IF \E t \in ui.tasks : t.no = no THEN CHOOSE t \in ui.tasks : t.no = no ELSE NoTask

NextScreens ==
    \/ \E hdr \in Headers : IngestedElsewhere(hdr)
    \/ OnMount(TRUE, TRUE)
    \/ \E id \in Screens : HomeButton(id, TRUE)
    \/ Back
    \/ \E kind \in TaskKinds : Pressed(kind)
    \/ ClearPressed
    \/ \E no \in 1..MaxStarted : SearchBegins(TaskNo(no))
    \/ \E no \in 1..MaxStarted, embOk \in BOOLEAN : SearchEmbedded(TaskNo(no), embOk)
    \/ \E no \in 1..MaxStarted, conn \in BOOLEAN : SearchFinished(TaskNo(no), conn)
    \/ \E no \in 1..MaxStarted, failAt \in {2, NoFail}, n \in 0..1, k \in 0..1 :
          IngestTask(TaskNo(no), failAt, n, k)
    \/ \E no \in 1..MaxStarted, conn \in BOOLEAN : ExplainTask(TaskNo(no), conn)
    \/ \E no \in 1..MaxStarted, conn \in BOOLEAN : IndexTask(TaskNo(no), conn)
    \/ \E no \in 1..MaxStarted, query \in Statements, conn \in BOOLEAN : SqlTask(TaskNo(no), query, conn)

\* ------------------------------------------------------ the connection pool

\* Module connection: the global _pool (0 is None, otherwise the number of the
\* pool object), the pools created so far, how often close() has been called
\* on each pool, and the coroutines calling get_pool and close_pool: where a
\* caller is suspended, the call it made last, the pool get_pool returned to
\* it (0: none), whether close() had already been called on that pool when it
\* was returned, and the pool a close_pool call is closing.
Callers == 1..MaxCallers

Idle == [pc |-> "idle", op |-> "none", got |-> 0, closing |-> FALSE, tgt |-> 0]

NoConnection ==
    [pool |-> 0, created |-> 0, closes |-> [p \in 1..MaxPools |-> 0],
     caller |-> [c \in Callers |-> Idle]]

PoolFrame == UNCHANGED <<db, run, last, prev, app, ui, quiz>>

\* get_pool up to its return or to await asyncpg.create_pool(...):
\* if _pool is None: _pool = await create_pool(...); return _pool.
GetPool(c) ==
    /\ connection.caller[c].pc = "idle"
    /\ connection' =
          IF connection.pool = 0
          THEN [connection EXCEPT !.caller[c] = [Idle EXCEPT !.pc = "create_pool",
                                                            !.op = "get_pool"]]
          ELSE [connection EXCEPT !.caller[c] =
                   [Idle EXCEPT !.op = "get_pool", !.got = connection.pool,
                                !.closing = connection.closes[connection.pool] > 0]]
    /\ PoolFrame

\* create_pool returns a new pool, which get_pool assigns to _pool and
\* returns, or it raises (the database is unreachable).
CreatePoolDone(c, ok) ==
    /\ connection.caller[c].pc = "create_pool"
    /\ connection.created < MaxPools
    /\ connection' =
          IF ok
          THEN [connection EXCEPT !.created = @ + 1,
                                  !.pool = connection.created + 1,
                                  !.caller[c].pc = "idle",
                                  !.caller[c].got = connection.created + 1]
          ELSE [connection EXCEPT !.caller[c].pc = "idle"]
    /\ PoolFrame

\* close_pool up to its return or to await _pool.close():
\* if _pool is not None: await _pool.close(); _pool = None.
ClosePool(c) ==
    /\ connection.caller[c].pc = "idle"
    /\ connection' =
          IF connection.pool = 0
          THEN [connection EXCEPT !.caller[c] = [Idle EXCEPT !.op = "close_pool"]]
          ELSE [connection EXCEPT !.closes[connection.pool] = @ + 1,
                                  !.caller[c] = [Idle EXCEPT !.pc = "close",
                                                            !.op = "close_pool",
                                                            !.tgt = connection.pool]]
    /\ PoolFrame

\* _pool.close() has returned: _pool = None.
ClosePoolDone(c) ==
    /\ connection.caller[c].pc = "close"
    /\ connection' = [connection EXCEPT !.pool = 0, !.caller[c].pc = "idle"]
    /\ PoolFrame

NextPool ==
    \/ \E c \in Callers : GetPool(c)
    \/ \E c \in Callers, ok \in BOOLEAN : CreatePoolDone(c, ok)
    \/ \E c \in Callers : ClosePool(c)
    \/ \E c \in Callers : ClosePoolDone(c)

\* ---------------------------------------------------------- the flashcards

\* The orders random.shuffle can leave n cards in.
Shuffles(n) ==
    {p \in [1..n -> 1..n] : \A i, j \in 1..n : i # j => p[i] # p[j]}

\* The orders of a deck of any length up to MaxCards.
AllShuffles == UNION {Shuffles(n) : n \in 0..MaxCards}

\* random.randint(0, n - 1)
randint(n) == 0..(n - 1)

\* The #explanation panel: whether it has the class hidden, and its text
\* (nothing, "Getting explanation...", or the explanation of a card).
NoExplanation == [hidden |-> TRUE, kind |-> "none", card |-> 0]

\* FlashcardScreen: the deck (cards are numbered as the file lists them), the
\* fields of __init__, the explanation panel, the explain requests suspended
\* on the network call (how many per card), and the event handled last.
NoQuiz ==
    [pc |-> "Start", flashcards |-> <<>>, current_index |-> 0, show_answer |-> FALSE,
     score |-> 0, total_shown |-> 0, showing_explanation |-> FALSE,
     panel |-> NoExplanation, pending |-> [c \in 1..MaxCards |-> 0], event |-> "none"]

\* The card on display.
CurrentCard(q) == q.flashcards[q.current_index + 1]

Pending(q) == {c \in 1..MaxCards : q.pending[c] > 0}

\* update_card
update_card(q) ==
    IF q.flashcards = <<>> THEN q
    ELSE [q EXCEPT !.current_index = IF @ >= Len(q.flashcards) THEN 0 ELSE @,
                   !.show_answer = FALSE,
                   !.panel.hidden = TRUE,
                   !.showing_explanation = FALSE]

\* show_answer button, action_show_answer
reveal(q) == [q EXCEPT !.show_answer = TRUE]

\* Variant of graded: Incorrect counts on score instead of total_shown.
graded_on_score(q, correct) ==
    update_card([q EXCEPT !.score = @ + 1,
                          !.total_shown = IF correct THEN @ + 1 ELSE @,
                          !.current_index = (@ + 1) % Len(q.flashcards)])

\* right / wrong: score += 1 when correct, total_shown += 1, next card.
graded(q, correct) ==
    update_card([q EXCEPT !.score = IF correct THEN @ + 1 ELSE @,
                          !.total_shown = @ + 1,
                          !.current_index = (@ + 1) % Len(q.flashcards)])

\* next
advanced(q) ==
    update_card([q EXCEPT !.current_index = (@ + 1) % Len(q.flashcards)])

\* shuffle, action_shuffle: random.shuffle leaves the deck in the order p.
shuffled(q, p) ==
    update_card([q EXCEPT !.flashcards = [i \in 1..Len(q.flashcards) |-> q.flashcards[p[i]]],
                          !.current_index = 0])

\* random, action_random_card: current_index = k, drawn by randint.
random_card(q, k) == update_card([q EXCEPT !.current_index = k])

\* action_explain up to its return or to await get_explanation_from_openrouter.
explain(q) ==
    IF q.showing_explanation
    THEN [q EXCEPT !.panel.hidden = TRUE, !.showing_explanation = FALSE]
    ELSE [q EXCEPT !.panel = [hidden |-> FALSE, kind |-> "getting", card |-> 0],
                   !.pending[CurrentCard(q)] = @ + 1]

QuizFrame == UNCHANGED <<db, run, last, prev, app, ui, connection>>

\* run_flashcards on a CSV file of n cards: exit(1) when the file is missing
\* or lists no card, otherwise the screen is pushed and on_mount shows the
\* first card.
RunFlashcards(exists, n) ==
    /\ quiz.pc = "Start"
    /\ ~exists => n = 0
    /\ quiz' = IF n = 0 THEN [quiz EXCEPT !.pc = "Exited"]
               ELSE update_card([quiz EXCEPT !.pc = "Running",
                                             !.flashcards = [i \in 1..n |-> i]])
    /\ QuizFrame

Buttons == {"show_answer", "right", "wrong", "next", "shuffle", "random", "explain", "exit"}

\* FlashcardScreen.on_button_pressed; p is the order random.shuffle produces
\* and k the index random.randint draws, for the buttons that use them.
ButtonPressed(id, p, k) ==
    /\ quiz.pc = "Running"
    /\ id \in {"right", "wrong"} => quiz.total_shown < MaxShown
    /\ id = "explain" /\ ~quiz.showing_explanation =>
          quiz.pending[CurrentCard(quiz)] = 0 /\ Cardinality(Pending(quiz)) < MaxExplains
    /\ id = "shuffle" => DOMAIN p = 1..Len(quiz.flashcards)
    /\ id = "random" => k \in randint(Len(quiz.flashcards))
    /\ quiz' = [(CASE id = "show_answer" -> reveal(quiz)
                   [] id = "right" -> graded(quiz, TRUE)
                   [] id = "wrong" -> graded(quiz, FALSE)
                   [] id = "next" -> advanced(quiz)
                   [] id = "shuffle" -> shuffled(quiz, p)
                   [] id = "random" -> random_card(quiz, k)
                   [] id = "explain" -> explain(quiz)
                   [] id = "exit" -> [quiz EXCEPT !.pc = "Exited"])
                EXCEPT !.event = id]
    /\ QuizFrame

Keys == {"space", "r", "s", "e", "escape"}

\* FlashcardScreen.on_key
on_key(q, key, p, k) ==
    CASE key = "space" -> IF q.show_answer THEN graded(q, TRUE) ELSE reveal(q)
      [] key = "r" -> random_card(q, k)
      [] key = "s" -> shuffled(q, p)
      [] key = "escape" -> [q EXCEPT !.pc = "Exited"]
      [] OTHER -> q

\* The action BINDINGS gives the key.
binding(q, key, p, k) ==
    CASE key = "space" -> reveal(q)
      [] key = "r" -> random_card(q, k)
      [] key = "s" -> shuffled(q, p)
      [] key = "e" -> explain(q)
      [] OTHER -> q

\* A key: on_key handles the event, then the binding of the screen runs its
\* action (p1, k1 and p2, k2 are the random draws of the two).  After escape
\* the screen is popped and its bindings no longer apply.
KeyPressed(key, p1, k1, p2, k2) ==
    /\ quiz.pc = "Running"
    /\ key = "space" /\ quiz.show_answer => quiz.total_shown < MaxShown
    /\ key = "e" /\ ~quiz.showing_explanation =>
          quiz.pending[CurrentCard(quiz)] = 0 /\ Cardinality(Pending(quiz)) < MaxExplains
    /\ key = "s" => DOMAIN p1 = 1..Len(quiz.flashcards) /\ DOMAIN p2 = DOMAIN p1
    /\ key = "r" => k1 \in randint(Len(quiz.flashcards)) /\ k2 \in randint(Len(quiz.flashcards))
    /\ quiz' = [(IF key = "escape" THEN on_key(quiz, key, p1, k1)
                 ELSE binding(on_key(quiz, key, p1, k1), key, p2, k2))
                EXCEPT !.event = key]
    /\ QuizFrame

\* get_explanation_from_openrouter returns (the explanation or an error
\* text) to an action_explain that asked for the given card.
Explained(card) ==
    /\ quiz.pc = "Running"
    /\ quiz.pending[card] > 0
    /\ quiz' = [quiz EXCEPT !.pending[card] = @ - 1,
                            !.panel.kind = "explanation",
                            !.panel.card = card,
                            !.showing_explanation = TRUE,
                            !.event = "explained"]
    /\ QuizFrame

NextQuiz ==
    \/ \E exists \in BOOLEAN, n \in 0..MaxCards : RunFlashcards(exists, n)
    \/ \E id \in Buttons \ {"shuffle", "random"} : ButtonPressed(id, <<>>, 0)
    \/ \E p \in AllShuffles : ButtonPressed("shuffle", p, 0)
    \/ \E k \in randint(MaxCards) : ButtonPressed("random", <<>>, k)
    \/ \E key \in Keys \ {"s", "r"} : KeyPressed(key, <<>>, 0, <<>>, 0)
    \/ \E p1 \in AllShuffles, p2 \in AllShuffles : KeyPressed("s", p1, 0, p2, 0)
    \/ \E k1 \in randint(MaxCards), k2 \in randint(MaxCards) : KeyPressed("r", <<>>, k1, <<>>, k2)
    \/ \E card \in 1..MaxCards : Explained(card)

NextApp ==
    \/ PreparedElsewhere
    \/ \E poolOk \in BOOLEAN, connOk \in BOOLEAN : OnMount(poolOk, connOk)
    \/ \E id \in Screens, conn \in BOOLEAN : HomeButton(id, conn)
    \/ Back
    \/ \E embOk \in BOOLEAN, conn \in BOOLEAN : SearchPressed(embOk, conn)
    \/ \E failAt \in 0..NoFail, n \in 0..MaxLoad, k \in 0..MaxLoad : IngestPressed(failAt, n, k)
    \/ \E conn \in BOOLEAN : ExplainPressed(conn)
    \/ \E id \in IndexButtons, conn \in BOOLEAN : IndexPressed(id, conn)

Init ==
    /\ db = EmptyDb
    /\ run = NoRun
    /\ last = NoCall
    /\ prev = Brief(NoCall)
    /\ app = NoApp
    /\ ui = NoUi
    /\ connection = NoConnection
    /\ quiz = NoQuiz

NextSchema ==
    \/ \E failAt \in 0..NoFail : EnsureSchema(failAt)
    \/ \E metric \in Metrics, conn \in BOOLEAN : CreateHnsw(metric, conn)
    \/ \E lists \in ListsChoices, conn \in BOOLEAN : CreateIvfflat(lists, conn)
    \/ \E conn \in BOOLEAN : DropIndexes(conn)

NextInsert ==
    \/ \E failAt \in 0..NoFail : EnsureSchema(failAt)
    \/ \E content \in {NULL, "", "c1"}, dim \in Dims, conn \in BOOLEAN, burn \in BOOLEAN :
          Insert(content, dim, conn, burn)

\* Runs of the ingestion pipeline, one after the other, on the same database.
SpecIngest == Init /\ [][NextIngest]_vars

\* One run on a fresh database.
FirstRun ==
    /\ run.pc = "Idle"
    /\ \E fn \in Functions, n \in 0..MaxN, hdr \in Headers, batch_size \in 1..MaxBatch,
          poolOk \in BOOLEAN : StartIngest(fn, n, hdr, batch_size, poolOk)

NextOneRun == FirstRun \/ RunStep

\* Every awaited call returns or raises: a run that can take a step takes one.
LiveIngest == Init /\ [][NextOneRun]_vars /\ WF_vars(RunStep)

\* The schema manager alone: any sequence of its four operations.
SpecSchema == Init /\ [][NextSchema]_vars

\* The vector store's insert path: ensure_schema and direct inserts.
SpecInsert == Init /\ [][NextInsert]_vars

\* The schema manager on a table that gains records.
NextMaintain ==
    \/ NextSchema
    \/ Insert("c1", D, TRUE, FALSE)

SpecMaintain == Init /\ [][NextMaintain]_vars

\* Inserts of vectors and similarity searches.
NextSearch ==
    \/ EnsureSchema(NoFail)
    \/ \E v \in Vectors : InsertVector("c1", v, MaxStored)
    \/ \E v \in Vectors, dim \in {D, 384}, limit \in -1..MaxLimit, conn \in BOOLEAN :
          SearchSimilar(v, dim, limit, conn)

SpecSearch == Init /\ [][NextSearch]_vars

\* The records the hybrid searches run on: one that matches the text twice
\* and lies 60 degrees from Vec(0, 2), one that matches it once and lies 30
\* degrees away, and two that do not match it, 30 and 60 degrees away.
Documents ==
    {<<"c1", Vec(2, 2)>>, <<"c2", Vec(1, 4)>>, <<"c3", Vec(1, 4)>>, <<"c3", Vec(2, 2)>>}

\* Inserts of texts with vectors and hybrid searches.
NextHybrid ==
    \/ EnsureSchema(NoFail)
    \/ \E doc \in Documents : InsertVector(doc[1], doc[2], MaxTexts)
    \/ \E v \in {ZeroVector, Vec(0, 2)}, text \in SearchTexts, limit \in 0..MaxTexts :
          SearchCombined(v, D, text, limit, TRUE)

SpecHybrid == Init /\ [][NextHybrid]_vars

\* Inserts and explain_query calls.
NextExplain ==
    \/ \E failAt \in 0..NoFail : EnsureSchema(failAt)
    \/ InsertVector("c1", SomeVector, MaxStored)
    \/ \E query \in Statements, fault \in Faults : ExplainQuery(query, fault)

SpecExplain == Init /\ [][NextExplain]_vars

\* Calls of the embedding providers.
NextEmbed ==
    \E provider \in Providers, content \in {"", "c1"}, api_key \in BOOLEAN,
       response \in Responses, dim \in Dims :
          GetEmbedding(provider, content, api_key, response, dim)

SpecEmbed == Init /\ [][NextEmbed]_vars

\* insert and load_csv while the table holds at most MaxCore rows.
CoreInsert(dim, burn) ==
    /\ Len(db.rows) < MaxCore
    /\ Insert("c1", dim, TRUE, burn)

CoreLoadCsv(n, k) ==
    /\ Len(db.rows) + k <= MaxCore
    /\ LoadCsv(NoFail, n, k)

\* The core operations together, on small inputs: ensure_schema, insert,
\* ingest runs, the two searches, stats, create_index and drop_indexes.
NextCore ==
    \/ \E failAt \in {2, NoFail} : EnsureSchema(failAt)
    \/ \E dim \in {384, D}, burn \in BOOLEAN : CoreInsert(dim, burn)
    \/ \E n \in 1..MaxLoad, k \in 0..MaxLoad : CoreLoadCsv(n, k)
    \/ SearchSimilar(SomeVector, D, 1, TRUE)
    \/ SearchCombined(SomeVector, D, "w", 1, TRUE)
    \/ Stats(TRUE)
    \/ CreateHnsw("l2", TRUE)
    \/ CreateIvfflat(10, TRUE)
    \/ DropIndexes(TRUE)

SpecCore == Init /\ [][NextCore]_vars

\* The screens of the running application and the tasks their buttons spawn.
SpecScreens == Init /\ [][NextScreens]_vars

\* get_pool and close_pool called by concurrent coroutines.
SpecPool == Init /\ [][NextPool]_vars

\* The flashcard quiz.
SpecQuiz == Init /\ [][NextQuiz]_vars

\* The application from startup on, on a database other clients may have
\* prepared.
SpecApp == Init /\ [][NextApp]_vars

\* Everything together: ingest runs, schema operations and direct inserts on
\* one database.  The claims are checked on the parts above, which keep the
\* state space small.
Next ==
    \/ NextIngest \/ NextSchema \/ NextInsert \/ NextMaintain \/ NextApp
    \/ NextSearch \/ NextHybrid \/ NextExplain \/ NextEmbed \/ NextCore
    \/ NextScreens \/ NextPool \/ NextQuiz

Spec == Init /\ [][Next]_vars

\* ------------------------------------------------------ what a run has done

\* The rows the table has gained since the run began, and their contents.
NewRows == SubSeq(db.rows, run.base + 1, Len(db.rows))

NewContents == [j \in 1..Len(NewRows) |-> NewRows[j].session_content]

\* The contents of the first k records of the source, in source order.
FirstRecords(k) == [j \in 1..k |-> Content(j)]

Positions == 1..Len(run.trace)

Happened(ev, i) == {j \in Positions : run.trace[j].ev = ev /\ run.trace[j].rec = i}

Ended == run.pc \in {"Completed", "Failed"}

Running == run.pc \in {"Schema", "Reading", "Embedding", "Inserting"}

\* ------------------------------------------------------------------ claims

\* C1: halt on failure.  When the embedding call, the title generation or the
\* insert for record k fails, the run ends Failed (the exception reaches the
\* caller), exactly the records 1..k-1 have been persisted, in source order,
\* nothing was done for a record after k, and no call was made twice for the
\* same record.
C1_HaltOnFailure ==
    /\ \A i \in 1..run.n :
          /\ Cardinality(Happened("embed", i)) <= 1
          /\ Cardinality(Happened("title", i)) <= 1
          /\ Cardinality(Happened("insert", i)) <= 1
    /\ run.failure.kind \in {"embed", "title", "insert"} =>
          /\ run.pc = "Failed"
          /\ run.inflight = {}
          /\ NewContents = FirstRecords(run.failure.rec - 1)
          /\ \A j \in Positions : run.trace[j].rec <= run.failure.rec

\* Record 4's embedding fails in the second batch of a source of 4 read with
\* batch_size 2, leaving 3 records.
C1_Witness ==
    /\ run.pc = "Failed"
    /\ run.failure = [kind |-> "embed", rec |-> 4]
    /\ run.n = 4
    /\ run.batch_size = 2
    /\ Len(NewRows) = 3

\* C2: without a failure the run returns N and has persisted exactly the N
\* records of the source, one row each, in source order; and at every point
\* count is the number of inserts this run has completed.
C2_ReturnsRecordCount ==
    /\ run.count = Len(NewRows)
    /\ run.count = Cardinality({j \in Positions : run.trace[j].ev = "insert_ok"})
    /\ NewContents = FirstRecords(Len(NewRows))
    /\ run.pc = "Completed" =>
          /\ run.failure = NoFailure
          /\ run.count = run.n
          /\ NewContents = FirstRecords(run.n)

\* 4 records with batch_size 3: one full batch and a last partial one.
C2_Witness ==
    /\ run.pc = "Completed"
    /\ run.n = 4
    /\ run.batch_size = 3
    /\ run.count = 4
    /\ run.base = 1

\* With batch_size 1 every record is flushed before the next row is read, so
\* what is persisted is the records before the failure point (all of them
\* without a failure, none when the failure precedes the reading).
PersistedWithUnitBatch ==
    IF run.failure.kind = "none" THEN FirstRecords(run.n)
    ELSE IF run.failure.kind \in {"pool", "schema", "open"} THEN <<>>
    ELSE FirstRecords(run.failure.rec - 1)

\* The reference itself: a run with batch_size 1 persists exactly that.
UnitBatchPersists == Ended /\ run.batch_size = 1 => NewContents = PersistedWithUnitBatch

\* C3: batching has no transactional meaning.  For a source and a failure
\* point (a row that cannot be read, an embedding or an insert that fails),
\* the records persisted when the run ends are the same for every batch_size:
\* those a run with batch_size 1 persists.
C3_BatchSizeIrrelevant == Ended => NewContents = PersistedWithUnitBatch

\* C4: no concurrent fan-out.  At most one call is awaited at any time; the
\* insert of record i is issued after its embedding has returned, and the
\* embedding of the next record starts only after that insert has returned;
\* and every run ends, Completed or Failed.
InOrder ==
    \A j \in Positions :
        LET e == run.trace[j] IN
        /\ e.ev = "insert" => \E h \in Happened("embed_ok", e.rec) : h < j
        /\ e.ev = "embed" /\ e.rec > 1 => \E h \in Happened("insert_ok", e.rec - 1) : h < j

C4_Sequential ==
    /\ [](Cardinality(run.inflight) <= 1 /\ InOrder)
    /\ [](Running => <>Ended)

\* The second record's embedding is awaited, after the first one's insert.
C4_Witness ==
    /\ run.pc = "Embedding"
    /\ run.inflight = {[call |-> "get_embedding", rec |-> 2]}
    /\ Happened("insert_ok", 1) # {}

\* The source record a persisted row came from.
SourceOf(row) == CHOOSE i \in 1..MaxN : Content(i) = row.session_content

\* C5: for each record ingested, a source without a title column has the
\* title asked of generate_title before the insert, and a source with a title
\* column (title or session_title) has that title persisted with the record.
C5_TitlePolicy ==
    \A j \in 1..Len(NewRows) :
        LET i == SourceOf(NewRows[j]) IN
        /\ run.hdr = "none" =>
              \E t \in Happened("title", i) : \A h \in Happened("insert", i) : t < h
        /\ run.hdr \in {"title", "session_title"} =>
              NewRows[j].session_title = SrcTitle(i)

\* C6: create_schema has returned without an error before the first embedding
\* or insert call of the run; when it raises (or the pool cannot be had), the
\* run makes no embedding call and no insert.
C6_SchemaFirst ==
    /\ (\E j \in Positions : run.trace[j].ev \in {"embed", "insert"}) =>
          /\ run.trace[1].ev = "schema_ok"
          /\ db.tbl
    /\ run.failure.kind \in {"pool", "schema"} =>
          /\ \A j \in Positions : run.trace[j].ev \notin {"embed", "insert"}
          /\ NewRows = <<>>

\* An insert has been issued in a run of load_csv.
C6_Witness ==
    /\ run.fn = "load_csv"
    /\ run.pc = "Inserting"
    /\ run.trace[1].ev = "schema_ok"

\* C7: an insert whose embedding has a length other than D fails and persists
\* nothing, so every persisted row carries an embedding of exactly D elements.
C7_DimensionEnforced ==
    /\ \A j \in 1..Len(db.rows) : db.rows[j].embedding.dim = D
    /\ last.op = "insert" /\ last.dim # D => ~last.ok /\ db.rows = last.pre.rows

\* An embedding one element too long is refused by a reachable store holding
\* the table and a row, for a content the store accepts.
C7_Witness ==
    /\ last.op = "insert"
    /\ last.dim = D + 1
    /\ last.content = "c1"
    /\ last.conn
    /\ last.pre.tbl
    /\ ~last.ok
    /\ Len(db.rows) >= 1

\* C8: an insert with empty content fails and persists no record.
C8_EmptyContentRejected ==
    last.op = "insert" /\ last.content = "" => ~last.ok /\ db.rows = last.pre.rows

\* The access method an operation's index uses, and the name it gives it.
KindOf(op) == IF op = "create_ivfflat_index" THEN "ivfflat" ELSE "hnsw"

NameOf(op) ==
    CASE op = "ensure_schema" -> IdxDefault
      [] op = "create_hnsw_index" -> IdxHnsw
      [] op = "create_ivfflat_index" -> IdxIvfflat

\* The same schema/index operation was called twice in a row, with the store
\* reachable both times, on a schema that had been ensured (create_index is
\* called on an existing table).
TwiceInARow ==
    /\ last.op \in {"ensure_schema", "create_hnsw_index", "create_ivfflat_index"}
    /\ prev.op = last.op
    /\ prev.conn /\ last.conn
    /\ prev.tbl \/ last.op = "ensure_schema"

\* C9 as stated: calling ensure_schema, or create_index of one kind, twice in
\* a row raises no error and leaves exactly one index of that kind (HNSW,
\* resp. IVFFlat) on the table.
C9_OneIndexOfKind ==
    TwiceInARow =>
        /\ prev.ok /\ last.ok
        /\ Cardinality({ix \in db.indexes : ix.method = KindOf(last.op)}) = 1

\* C9 as amended: calling ensure_schema, or create_index of one kind, twice in
\* a row on an ensured schema raises no error, the second call changes
\* nothing, and exactly one index of the name that operation manages exists,
\* of that operation's kind.
C9_OneIndexOfName ==
    TwiceInARow =>
        /\ prev.ok /\ last.ok
        /\ db = last.pre
        /\ Cardinality({ix \in db.indexes : ix.name = NameOf(last.op)}) = 1
        /\ \A ix \in db.indexes : ix.name = NameOf(last.op) => ix.method = KindOf(last.op)

\* create_hnsw_index twice in a row on a table that also has the default index
\* of ensure_schema: two HNSW indexes, one of them named idx_conversations_hnsw.
C9_Witness ==
    /\ TwiceInARow
    /\ last.op = "create_hnsw_index"
    /\ HasIndex(db, IdxDefault)
    /\ HasIndex(db, IdxHnsw)

\* The metric an operator class computes.
MetricOf(ops) ==
    CASE ops = "vector_cosine_ops" -> "cosine"
      [] ops = "vector_ip_ops" -> "inner"
      [] ops = "vector_l2_ops" -> "l2"

\* C10: what create_index returns describes the index present after the call:
\* it says "created" exactly when the index did not exist before, and the
\* metric (HNSW) or number of lists (IVFFlat) it names is that of the index on
\* the table.
C10_DescribesIndex ==
    /\ last.op = "create_hnsw_index" /\ last.ok /\ last.metric \in {"cosine", "inner", "l2"} =>
          /\ last.val.status = "created" <=> ~HasIndex(last.pre, IdxHnsw)
          /\ last.val.metric = MetricOf(IndexNamed(db, IdxHnsw).ops)
    /\ last.op = "create_ivfflat_index" /\ last.ok =>
          /\ last.val.status = "created" <=> ~HasIndex(last.pre, IdxIvfflat)
          /\ last.val.lists = IndexNamed(db, IdxIvfflat).lists

\* C11: whatever the schema state (no table, a table with or without any of
\* the three similarity indexes, with or without records), drop_indexes on a
\* reachable store raises no error and leaves none of the default, HNSW and
\* IVFFlat indexes; the table, its records and its id sequence are as before;
\* called again right after, it raises no error and changes nothing.
C11_DropIndexes ==
    last.op = "drop_indexes" /\ last.conn =>
        /\ last.ok
        /\ \A name \in {IdxDefault, IdxHnsw, IdxIvfflat} : ~HasIndex(db, name)
        /\ db.rows = last.pre.rows
        /\ db.tbl = last.pre.tbl /\ db.ext = last.pre.ext /\ db.seq = last.pre.seq
        /\ prev.op = "drop_indexes" /\ prev.conn => db = last.pre

\* drop_indexes removed the three indexes of a table holding records, and a
\* second call followed.
C11_Witness ==
    /\ last.op = "drop_indexes" /\ last.conn /\ last.ok
    /\ prev.op = "drop_indexes" /\ prev.conn /\ prev.ok
    /\ Len(db.rows) >= 2
    /\ db.indexes = {}

\* drop_indexes on a table with the three indexes and a record.
C11_WitnessAll ==
    /\ last.op = "drop_indexes" /\ last.conn
    /\ \A name \in {IdxDefault, IdxHnsw, IdxIvfflat} : HasIndex(last.pre, name)
    /\ Len(db.rows) >= 1

\* C12: no search, stats or explain call reaches the store before the
\* application has ensured the table: the first get_schema_stats,
\* search_similar or explain_query call made since startup comes after a
\* create_schema that this application completed.
C12_EnsuredBeforeRead ==
    app.first.op # "none" => app.first.ensured

\* The row of the table that has the given id.
RowOf(id) == db.rows[CHOOSE i \in 1..Len(db.rows) : db.rows[i].id = id]

\* The cosine distance of a stored row to the query vector of the last call.
DistanceOf(row) == cosine_distance(ToVector(row.embedding.v), ToVector(last.embedding.v))

\* C13: a search_similar call with limit >= 1 that returns, returns at most
\* limit records, the distance field does not decrease along the list (a NaN
\* distance, that of a zero vector, counts as the engine orders it: after
\* every number), and the distance field of each record is the cosine
\* distance of the stored record to the query vector.
C13_SearchOrdered ==
    last.op = "search_similar" /\ last.ok /\ last.limit >= 1 =>
        /\ Len(last.found) <= last.limit
        /\ \A j \in 1..(Len(last.found) - 1) :
              last.found[j].distance <= last.found[j + 1].distance
        /\ \A j \in 1..Len(last.found) :
              last.found[j].distance = DistanceOf(RowOf(last.found[j].id))

\* Two records come back in the order of their distances, the one inserted
\* second first.
C13_Witness ==
    /\ last.op = "search_similar" /\ last.ok
    /\ last.limit = 2
    /\ Len(last.found) = 2
    /\ last.found[1].id = 2
    /\ last.found[1].distance < last.found[2].distance
    /\ last.found[2].distance < NaN

\* Of two records, limit = 1 returns the nearer one only.
C13_WitnessLimit ==
    /\ last.op = "search_similar" /\ last.ok
    /\ last.limit = 1
    /\ Len(db.rows) = 2
    /\ Len(last.found) = 1
    /\ DistanceOf(db.rows[1]) > DistanceOf(db.rows[2])

\* C14: search_similar with limit = 0 fails: it raises instead of returning
\* an empty list.
C14_ZeroLimitRejected ==
    last.op = "search_similar" /\ last.limit = 0 => ~last.ok

\* C15 as stated: after a record was inserted with embedding v, a
\* search_similar(v, limit >= 1) that returns has that record first, with
\* distance 0, whatever else the table holds and whatever v is.
C15_RoundTripFirst ==
    last.op = "search_similar" /\ last.ok /\ last.limit >= 1 =>
        \A i \in 1..Len(db.rows) :
            db.rows[i].embedding = last.embedding =>
                /\ last.found # <<>>
                /\ last.found[1].id = db.rows[i].id
                /\ last.found[1].distance = 0

\* C15: after a record was inserted with a non-zero embedding v, a
\* search_similar(v, limit >= 1) that returns has a record at distance 0
\* first, and that record is the inserted one when no other record lies at
\* distance 0 from v; when v is the zero vector every distance returned is
\* NaN.
C15_RoundTripNearest ==
    last.op = "search_similar" /\ last.ok /\ last.limit >= 1 =>
        \A i \in 1..Len(db.rows) :
            db.rows[i].embedding = last.embedding =>
                IF ToVector(last.embedding.v).mag = 0
                THEN \A j \in 1..Len(last.found) : last.found[j].distance = NaN
                ELSE /\ last.found # <<>>
                     /\ last.found[1].distance = 0
                     /\ (\A k \in 1..Len(db.rows) : k # i => DistanceOf(db.rows[k]) # 0)
                           => last.found[1].id = db.rows[i].id

\* The record inserted second is searched for by its own embedding and comes
\* first, before the record inserted first.
C15_Witness ==
    /\ last.op = "search_similar" /\ last.ok /\ last.limit >= 1
    /\ Len(db.rows) = 2
    /\ db.rows[2].embedding = last.embedding
    /\ DistanceOf(db.rows[1]) # 0
    /\ last.found[1].id = db.rows[2].id
    /\ last.found[1].distance = 0

C17_ExplainNeverRaises ==
    last.op = "explain_query" =>
        /\ last.ok
        /\ IF \/ last.fault # "none"
              \/ last.statement = "invalid"
              \/ ~last.pre.tbl
           THEN last.returned = "error" /\ last.cause # "none"
           ELSE last.returned = "plan" /\ last.cause = "none"

\* pool.acquire() failed and explain_query returned the error as text.
C17_Witness ==
    /\ last.op = "explain_query"
    /\ last.fault = "acquire"
    /\ last.pre.tbl
    /\ last.returned = "error"
    /\ last.cause = "ConnectionError"

\* A valid statement on an existing table returned its plan.
C17_WitnessPlan ==
    /\ last.op = "explain_query"
    /\ last.returned = "plan"
    /\ Len(last.pre.rows) > 0

C19_DimensionChecked ==
    last.op = "get_embedding" /\ last.provider = "ollama" =>
        /\ last.ok => last.embedding.dim = D
        /\ last.response = "vector" /\ last.embedding.dim # D => ~last.ok

\* C20: the cloud provider's get_embedding, called without an API key
\* configured, raises and has sent no request.
C20_NoKeyNoRequest ==
    last.op = "get_embedding" /\ last.provider = "openrouter" /\ ~last.api_key =>
        /\ ~last.ok
        /\ last.error = "ValueError"
        /\ last.requests = 0

\* The cloud provider was called without a key while its service would have
\* answered.
C20_Witness ==
    /\ last.op = "get_embedding" /\ last.provider = "openrouter"
    /\ ~last.api_key
    /\ last.response = "vector"
    /\ ~last.ok
    /\ last.requests = 0

\* With a key the cloud provider sends its request.
C20_WitnessKey ==
    /\ last.op = "get_embedding" /\ last.provider = "openrouter"
    /\ last.api_key
    /\ last.requests = 1

\* One step keeps every persisted record as it is and in its place, and gives
\* each record it adds an id above every id handed out before.
RecordsOnlyGrow ==
    /\ Len(db'.rows) >= Len(db.rows)
    /\ SubSeq(db'.rows, 1, Len(db.rows)) = db.rows
    /\ \A j \in (Len(db.rows) + 1)..Len(db'.rows) :
          /\ db'.rows[j].id > db.seq
          /\ \A i \in 1..(j - 1) : db'.rows[i].id < db'.rows[j].id

\* C21: in every step of the core operations (ensure_schema, insert, ingest,
\* search_similar, search_combined, stats, create_index, drop_indexes) the ids
\* assigned are strictly increasing and none is reused, and no persisted
\* record is modified or removed, also when an ingest fails part-way.
C21_IdsMonotone == [][RecordsOnlyGrow]_vars

\* An ingest failed after its first record, on a table whose ids have a gap
\* left by a rejected insert.
C21_Witness ==
    /\ last.op = "load_csv" /\ ~last.ok
    /\ last.row_count = 1
    /\ Len(last.pre.rows) >= 1
    /\ Len(db.rows) = Len(last.pre.rows) + 1
    /\ db.rows[Len(db.rows)].id > Len(db.rows)

\* C22: whenever a task spawned by a screen's button ends (search, ingest,
\* index create/drop/refresh, explain, playground SQL), no exception has left
\* a task, the application is still running, and, if the task's store or
\* embedding operation failed, that screen's output panel shows the error
\* message this task wrote.
C22_FailuresShown ==
    [][ui'.ended # ui.ended =>
          /\ ~ui'.escaped
          /\ app'.pc = "Running"
          /\ ui'.ended.failed =>
                ui'.panel[ScreenOf(ui'.ended.kind)] = [text |-> "error", of |-> ui'.ended.no]]_vars

\* Tasks of two screens have failed, the playground's last, and each panel
\* shows its error.
C22_Witness ==
    /\ app.pc = "Running"
    /\ ui.ended.failed /\ ui.ended.kind = "run_sql"
    /\ ui.panel["playground"] = [text |-> "error", of |-> ui.ended.no]
    /\ ui.panel["search"].text = "error"

\* C23: when the database is unreachable at startup (get_pool or the SELECT 1
\* of test_connection fails), on_mount completes: the application runs with
\* connected = False and row_count = 0 and a screen is pushed.
C23_UnreachableStartup ==
    app.pc # "Start" /\ (~app.pool \/ ~app.connected) =>
        /\ app.pc = "Running"
        /\ ~app.connected
        /\ app.row_count = 0
        /\ app.screen # "none"

\* C24: while no pool has been closed, at most one pool has been created and
\* all callers that hold a pool returned by get_pool hold the same one.
C24_Singleton ==
    (\A p \in 1..MaxPools : connection.closes[p] = 0) =>
        /\ connection.created <= 1
        /\ \A c1, c2 \in Callers :
              connection.caller[c1].got # 0 /\ connection.caller[c2].got # 0 =>
                 connection.caller[c1].got = connection.caller[c2].got

\* C25: close() is called at most once on every pool, and get_pool has
\* returned no pool on which close() had already been called.
C25_PoolLifecycle ==
    /\ \A p \in 1..MaxPools : connection.closes[p] <= 1
    /\ \A c \in Callers : ~connection.caller[c].closing

\* C28: an explain_query call leaves the persisted records and the indexes
\* as they were before the call, whatever statement it was given and whether
\* it returned a plan or an error text.
C28_ExplainPure ==
    last.op = "explain_query" =>
        /\ db.rows = last.pre.rows
        /\ db.indexes = last.pre.indexes

\* C26: once every search started from SearchScreen has completed, the
\* results panel (unless cleared since) shows what the search started last
\* wrote.
C26_LatestShown ==
    /\ ui.searched > 0
    /\ \A t \in ui.tasks : t.kind # "search"
    /\ ui.panel["search"] # NoPanel
    => ui.panel["search"].of = ui.searched

\* C27: when a search that returned records has ended, what it left in the
\* results panel is the result blocks, not an error.
C27_AllRendered ==
    /\ ui.ended.kind = "search"
    /\ ui.ended.found > 0
    /\ ui.panel["search"].of = ui.ended.no
    => ui.panel["search"].text = "results"

\* C29: while the quiz runs, an explanation panel that is visible with a
\* finished explanation shows the explanation generated for the card on
\* display, and showing_explanation is true exactly when the panel is
\* visible.
C29_ExplanationConsistent ==
    quiz.pc = "Running" =>
        /\ ~quiz.panel.hidden /\ quiz.panel.kind = "explanation" =>
              quiz.panel.card = CurrentCard(quiz)
        /\ quiz.showing_explanation <=> ~quiz.panel.hidden

\* Every step that changes score or total_shown handles Correct, Incorrect,
\* or Space with the answer shown.
OnlyGradingCounts ==
    quiz'.score # quiz.score \/ quiz'.total_shown # quiz.total_shown =>
        \/ quiz'.event \in {"right", "wrong"}
        \/ quiz'.event = "space" /\ quiz.show_answer

\* C30: the quiz never runs on an empty deck; while it runs, 0 <=
\* current_index < len(flashcards) and 0 <= score <= total_shown; and score
\* and total_shown change only on a grading event.
C30_QuizInvariants ==
    /\ [](quiz.pc = "Running" =>
             /\ Len(quiz.flashcards) > 0
             /\ 0 <= quiz.current_index /\ quiz.current_index < Len(quiz.flashcards)
             /\ 0 <= quiz.score /\ quiz.score <= quiz.total_shown)
    /\ [][OnlyGradingCounts]_vars

\* A shuffled deck of several cards, graded by button and by Space up to the
\* last card, with a wrong answer among them.
C30_Witness ==
    /\ quiz.pc = "Running"
    /\ quiz.event = "space"
    /\ quiz.score >= 2 /\ quiz.total_shown > quiz.score
    /\ Len(quiz.flashcards) >= 2
    /\ quiz.flashcards[1] # 1
    /\ quiz.current_index = Len(quiz.flashcards) - 1

====
